---- MODULE Spec2Model ----
(***************************************************************************)
(* Model of file-fetch-caching.py: fetch_s3_file(bucket_name, file_key),   *)
(* a read-through cache in front of an HTTP GET.  Every caller is a thread *)
(* or process running fetch_s3_file; each statement of the function is one *)
(* step.  The local filesystem and the remote store are shared state.      *)
(***************************************************************************)
EXTENDS Integers, Sequences, FiniteSets, TLC

(* ------------------------------ bounds -------------------------------- *)
\* calls of fetch_s3_file that concurrent callers make in all
MaxCalls == 2
\* calls of fetch_s3_file that a single caller makes one after another
MaxSeqCalls == 3
\* chunks (of chunk_size bytes) in every remote object
NChunks == 2
\* runs of the script the rerun loop is followed for
MaxRuns == 5
\* calls of upload_file_to_s3_if_not_exists
MaxUploads == 3

\* the concurrent callers of fetch_s3_file
Callers == {"c1", "c2"}

(* ------------------------------ paths --------------------------------- *)
\* A path is [abs, segs]: whether it starts with "/" and its segments.
Path(a, s) == [abs |-> a, segs |-> s]

\* CACHE_DIR = "cache"
CACHE_DIR == Path(FALSE, <<"cache">>)

\* the working directory of the process, against which "cache" is resolved
Cwd == <<"work">>

Front(s) == SubSeq(s, 1, Len(s) - 1)

\* os.path.join(a, b): an absolute b discards a
join(a, b) == IF b.abs THEN b ELSE Path(a.abs, a.segs \o b.segs)

\* os.path.dirname(p)
dirname(p) == Path(p.abs, Front(p.segs))

\* what the filesystem does with the segments of a path: ".." steps up and
\* "." stays
RECURSIVE Norm(_)
Norm(s) ==
    IF s = <<>> THEN <<>>
    ELSE LET r == Norm(Front(s))
             x == s[Len(s)]
         IN  IF x = ".." THEN (IF r = <<>> THEN <<>> ELSE Front(r))
             ELSE IF x = "." THEN r
             ELSE r \o <<x>>

\* the absolute location a path names
Resolve(p) == Norm(IF p.abs THEN p.segs ELSE Cwd \o p.segs)

\* the locations of the leading parts of p, p itself included
Prefixes(p) == { Resolve(Path(p.abs, SubSeq(p.segs, 1, i))) : i \in 1..Len(p.segs) }

(* ------------------------------ inputs -------------------------------- *)
Key(s) == Path(FALSE, s)

KeyAB  == Key(<<"a", "b">>)
KeyAB2 == Key(<<"a", "b2">>)
KeyUp  == Key(<<"..", "x">>)
KeyAbs == Path(TRUE, <<"x">>)
KeyDot == Key(<<"a", ".", "b">>)


\* the remote store: the objects it holds, by URL (bucket and key)
RemoteObjects ==
    (<<"b1", KeyAB>>  :> "b1:a/b")  @@ (<<"b2", KeyAB>> :> "b2:a/b") @@
    (<<"b1", KeyAB2>> :> "b1:a/b2") @@ (<<"b1", KeyDot>> :> "b1:a/./b") @@
    (<<"b1", KeyUp>>  :> "b1:../x") @@ (<<"b1", KeyAbs>> :> "b1:/x")

\* the calls the callers make
Requests ==
    {<<"b1", KeyAB>>, <<"b2", KeyAB>>, <<"b1", KeyAB2>>, <<"b2", KeyAB2>>,
     <<"b1", KeyUp>>, <<"b1", KeyAbs>>}

\* the calls of one caller that works in bucket b1 alone
KeyRequests == {<<"b1", KeyAB>>, <<"b1", KeyDot>>, <<"b1", KeyAB2>>}

\* every URL a call can ask for
Urls == DOMAIN RemoteObjects \cup Requests \cup KeyRequests

\* the bytes of an object, chunk by chunk
Content(obj) == [i \in 1..NChunks |-> <<obj, i>>]

\* what a write past the end of a file leaves in between
Hole == <<"hole", 0>>

\* f"https://{bucket_name}.s3.amazonaws.com/{file_key}"
s3_url(b, k) == <<b, k>>

(* ------------------------------ state --------------------------------- *)
VARIABLES
    pc,           \* each caller's position in fetch_s3_file
    bucket_name,  \* argument
    file_key,     \* argument
    local_path,   \* line 7
    response,     \* line 14: [status, obj]
    file,         \* line 18: the position of the open file object
    result,       \* the path returned
    err,          \* the exception raised
    dirs,         \* the directories of the filesystem
    fs,           \* the files of the filesystem: location -> chunks
    fetchCount,   \* GET requests the remote store has seen, by URL
    reqs,         \* GET requests of the caller's current call
    touched,      \* locations the caller's current call created or wrote
    calls,        \* calls made so far
    uncached,     \* whether nothing was at local_path when the call began
    prev,         \* the caller's previous call, when it was for the same key
    \* test-retry.py
    rpc,          \* the position in run_script_every_5_seconds
    runs,         \* runs of the script started so far
    run_result,   \* how the last subprocess.run ended
    sleeps,       \* the time.sleep calls so far: [after, secs]
    \* s3_example_upload.py
    upc,          \* the position in upload_file_to_s3_if_not_exists
    s3_path,      \* argument
    head_object,  \* how s3_client.head_object ended in this call
    uploads,      \* s3_client.upload_file calls of this call
    ucalls,       \* calls of upload_file_to_s3_if_not_exists so far
    bucket        \* the objects of BUCKET_NAME: key -> whose bytes it holds

retryVars == <<rpc, runs, run_result, sleeps>>
uploadVars == <<upc, s3_path, head_object, uploads, ucalls, bucket>>

vars == <<pc, bucket_name, file_key, local_path, response, file, result, err,
          dirs, fs, fetchCount, reqs, touched, calls, uncached, prev,
          retryVars, uploadVars>>

cacheVars == <<pc, bucket_name, file_key, local_path, response, file, result, err,
               dirs, fs, fetchCount, reqs, touched, calls, uncached, prev>>

\* the keys the upload script is called with
S3Paths == {"f1", "f2"}

NoPath == Path(FALSE, <<>>)
NoResponse == [status |-> 0, obj |-> ""]
NoCall == [outcome |-> "idle", err |-> "", key |-> NoPath, path |-> NoPath,
           reqs |-> 0, uncached |-> FALSE]

InCallPc == {"exists", "get", "raise_for_status", "makedirs", "open", "iter_content"}
InCall(c) == pc[c] \in InCallPc
Finished(c) == pc[c] \in {"returned", "raised", "killed"}

\* os.path.exists(p)
Exists(p) ==
    /\ \A i \in 1..(Len(p.segs) - 1) :
          Resolve(Path(p.abs, SubSeq(p.segs, 1, i))) \in dirs
    /\ Resolve(p) \in dirs \cup DOMAIN fs

Init ==
    /\ pc = [c \in Callers |-> "idle"]
    /\ bucket_name = [c \in Callers |-> ""]
    /\ file_key = [c \in Callers |-> NoPath]
    /\ local_path = [c \in Callers |-> NoPath]
    /\ response = [c \in Callers |-> NoResponse]
    /\ file = [c \in Callers |-> 0]
    /\ result = [c \in Callers |-> NoPath]
    /\ err = [c \in Callers |-> ""]
    /\ dirs = {<<>>, Cwd}
    /\ fs = <<>>
    /\ fetchCount = [u \in Urls |-> 0]
    /\ reqs = [c \in Callers |-> 0]
    /\ touched = [c \in Callers |-> {}]
    /\ calls = 0
    /\ uncached = [c \in Callers |-> FALSE]
    /\ prev = [c \in Callers |-> NoCall]
    /\ rpc = "while"
    /\ runs = 0
    /\ run_result = "none"
    /\ sleeps = <<>>
    /\ upc = "main"
    /\ s3_path = ""
    /\ head_object = "none"
    /\ uploads = 0
    /\ ucalls = 0
    /\ bucket = [k \in S3Paths |-> "none"]

(* ------------------------------ steps --------------------------------- *)
\* the frame of fetch_s3_file in caller c is left: its response and file
\* objects are gone
Leave(c) ==
    /\ response' = [response EXCEPT ![c] = NoResponse]
    /\ file' = [file EXCEPT ![c] = 0]

\* an exception leaves fetch_s3_file
Raise(c, e) ==
    /\ pc' = [pc EXCEPT ![c] = "raised"]
    /\ err' = [err EXCEPT ![c] = e]
    /\ Leave(c)

\* lines 6-7: the call, and local_path = os.path.join(CACHE_DIR, file_key)
Call(c, b, k) ==
    /\ pc[c] \in {"idle", "returned", "raised", "killed"}
    /\ calls' = calls + 1
    /\ prev' = [prev EXCEPT ![c] =
                  IF k = file_key[c]
                  THEN [outcome |-> pc[c], err |-> err[c], key |-> file_key[c],
                        path |-> result[c], reqs |-> reqs[c], uncached |-> uncached[c]]
                  ELSE NoCall]
    /\ uncached' = [uncached EXCEPT ![c] = ~Exists(join(CACHE_DIR, k))]
    /\ bucket_name' = [bucket_name EXCEPT ![c] = b]
    /\ file_key' = [file_key EXCEPT ![c] = k]
    /\ local_path' = [local_path EXCEPT ![c] = join(CACHE_DIR, k)]
    /\ result' = [result EXCEPT ![c] = NoPath]
    /\ err' = [err EXCEPT ![c] = ""]
    /\ reqs' = [reqs EXCEPT ![c] = 0]
    /\ touched' = [touched EXCEPT ![c] = {}]
    /\ pc' = [pc EXCEPT ![c] = "exists"]
    /\ UNCHANGED <<response, file, dirs, fs, fetchCount>>
    /\ UNCHANGED <<retryVars, uploadVars>>

\* CheckExists with the cache test lost: every call goes on to the GET
CheckExistsSkipped(c) ==
    /\ pc[c] = "exists"
    /\ pc' = [pc EXCEPT ![c] = "get"]
    /\ UNCHANGED <<bucket_name, file_key, local_path, response, file, result, err,
                   dirs, fs, fetchCount, reqs, touched, calls, uncached, prev>>
    /\ UNCHANGED <<retryVars, uploadVars>>

\* CheckExists that asks the store again about a file it has found
CheckExistsRevalidates(c) ==
    /\ pc[c] = "exists"
    /\ IF Exists(local_path[c])
       THEN /\ pc' = [pc EXCEPT ![c] = "returned"]
            /\ result' = [result EXCEPT ![c] = local_path[c]]
            /\ fetchCount' = [fetchCount EXCEPT
                                ![s3_url(bucket_name[c], file_key[c])] = @ + 1]
            /\ reqs' = [reqs EXCEPT ![c] = @ + 1]
       ELSE /\ pc' = [pc EXCEPT ![c] = "get"]
            /\ UNCHANGED <<result, fetchCount, reqs>>
    /\ UNCHANGED <<bucket_name, file_key, local_path, response, file, err, dirs, fs,
                   touched, calls, uncached, prev>>
    /\ UNCHANGED <<retryVars, uploadVars>>

\* CheckExists that trusts what the last call for the key found
CheckExistsRemembered(c) ==
    /\ pc[c] = "exists"
    /\ IF Exists(local_path[c])
          \/ (prev[c].outcome = "returned" /\ prev[c].key = file_key[c])
       THEN /\ pc' = [pc EXCEPT ![c] = "returned"]
            /\ result' = [result EXCEPT ![c] = local_path[c]]
       ELSE /\ pc' = [pc EXCEPT ![c] = "get"]
            /\ UNCHANGED result
    /\ UNCHANGED <<bucket_name, file_key, local_path, response, file, err, dirs, fs,
                   fetchCount, reqs, touched, calls, uncached, prev>>
    /\ UNCHANGED <<retryVars, uploadVars>>

\* lines 9-11: if os.path.exists(local_path): return local_path
CheckExists(c) ==
    /\ pc[c] = "exists"
    /\ IF Exists(local_path[c])
       THEN /\ pc' = [pc EXCEPT ![c] = "returned"]
            /\ result' = [result EXCEPT ![c] = local_path[c]]
       ELSE /\ pc' = [pc EXCEPT ![c] = "get"]
            /\ UNCHANGED result
    /\ UNCHANGED <<bucket_name, file_key, local_path, response, file, err, dirs, fs,
                   fetchCount, reqs, touched, calls, uncached, prev>>
    /\ UNCHANGED <<retryVars, uploadVars>>

\* the answers the remote store can give to a GET of url
Answers(url) ==
    (IF url \in DOMAIN RemoteObjects
     THEN {[status |-> 200, obj |-> RemoteObjects[url]]}
     ELSE {[status |-> 404, obj |-> ""]})
    \cup {[status |-> 503, obj |-> ""]}

\* the request of line 14 reaches the remote store
Request(c) ==
    /\ fetchCount' = [fetchCount EXCEPT ![s3_url(bucket_name[c], file_key[c])] = @ + 1]
    /\ reqs' = [reqs EXCEPT ![c] = @ + 1]

\* Get behind one lock for the whole cache: it waits while any other caller
\* has a fetch under way
GetSerialized(c) ==
    /\ pc[c] = "get"
    /\ \A d \in Callers \ {c} :
          pc[d] \notin {"raise_for_status", "makedirs", "open", "iter_content"}
    /\ Request(c)
    /\ \E r \in Answers(s3_url(bucket_name[c], file_key[c])) :
          response' = [response EXCEPT ![c] = r]
    /\ pc' = [pc EXCEPT ![c] = "raise_for_status"]
    /\ UNCHANGED <<bucket_name, file_key, local_path, file, result, err, dirs, fs,
                   touched, calls, uncached, prev>>
    /\ UNCHANGED <<retryVars, uploadVars>>

\* lines 13-14: response = requests.get(s3_url, stream=True); the status line
\* and headers come back, the body is still to be read
Get(c) ==
    /\ pc[c] = "get"
    /\ Request(c)
    /\ \E r \in Answers(s3_url(bucket_name[c], file_key[c])) :
          response' = [response EXCEPT ![c] = r]
    /\ pc' = [pc EXCEPT ![c] = "raise_for_status"]
    /\ UNCHANGED <<bucket_name, file_key, local_path, file, result, err, dirs, fs,
                   touched, calls, uncached, prev>>
    /\ UNCHANGED <<retryVars, uploadVars>>

\* GetFails with the error caught and the request made again
GetFailsRetried(c) ==
    /\ pc[c] = "get"
    /\ Request(c)
    /\ UNCHANGED <<pc, bucket_name, file_key, local_path, response, file, result, err,
                   dirs, fs, touched, calls, uncached, prev>>
    /\ UNCHANGED <<retryVars, uploadVars>>

\* line 14: requests.get raises (the connection fails)
GetFails(c) ==
    /\ pc[c] = "get"
    /\ Request(c)
    /\ Raise(c, "ConnectionError")
    /\ UNCHANGED <<bucket_name, file_key, local_path, result, dirs, fs,
                   touched, calls, uncached, prev>>
    /\ UNCHANGED <<retryVars, uploadVars>>

\* RaiseForStatus with one more try after an error status
RaiseForStatusRetried(c) ==
    /\ pc[c] = "raise_for_status"
    /\ IF response[c].status >= 400
       THEN IF reqs[c] < 2
            THEN /\ pc' = [pc EXCEPT ![c] = "get"]
                 /\ Leave(c)
                 /\ UNCHANGED err
            ELSE Raise(c, "HTTPError")
       ELSE /\ pc' = [pc EXCEPT ![c] = "makedirs"]
            /\ UNCHANGED <<err, response, file>>
    /\ UNCHANGED <<bucket_name, file_key, local_path, result, dirs, fs,
                   fetchCount, reqs, touched, calls, uncached, prev>>
    /\ UNCHANGED <<retryVars, uploadVars>>

\* line 15: response.raise_for_status()
RaiseForStatus(c) ==
    /\ pc[c] = "raise_for_status"
    /\ IF response[c].status >= 400
       THEN Raise(c, "HTTPError")
       ELSE /\ pc' = [pc EXCEPT ![c] = "makedirs"]
            /\ UNCHANGED <<err, response, file>>
    /\ UNCHANGED <<bucket_name, file_key, local_path, result, dirs, fs,
                   fetchCount, reqs, touched, calls, uncached, prev>>
    /\ UNCHANGED <<retryVars, uploadVars>>

\* line 17: os.makedirs(os.path.dirname(local_path), exist_ok=True)
Makedirs(c) ==
    /\ pc[c] = "makedirs"
    /\ LET want == Prefixes(dirname(local_path[c])) IN
       IF want \cap DOMAIN fs # {}
       THEN /\ Raise(c, "OSError")
            /\ UNCHANGED <<dirs, touched>>
       ELSE /\ dirs' = dirs \cup want
            /\ touched' = [touched EXCEPT ![c] = @ \cup (want \ dirs)]
            /\ pc' = [pc EXCEPT ![c] = "open"]
            /\ UNCHANGED <<err, response, file>>
    /\ UNCHANGED <<bucket_name, file_key, local_path, result, fs,
                   fetchCount, reqs, calls, uncached, prev>>
    /\ UNCHANGED <<retryVars, uploadVars>>

\* line 18: open(local_path, 'wb') creates the file, or empties the one there
Open(c) ==
    /\ pc[c] = "open"
    /\ LET p == Resolve(local_path[c]) IN
       IF p \in dirs
       THEN /\ Raise(c, "OSError")
            /\ UNCHANGED <<fs, touched>>
       ELSE /\ fs' = [q \in DOMAIN fs \cup {p} |-> IF q = p THEN <<>> ELSE fs[q]]
            /\ touched' = [touched EXCEPT ![c] = @ \cup {p}]
            /\ file' = [file EXCEPT ![c] = 0]
            /\ pc' = [pc EXCEPT ![c] = "iter_content"]
            /\ UNCHANGED <<err, response>>
    /\ UNCHANGED <<bucket_name, file_key, local_path, result, dirs,
                   fetchCount, reqs, calls, uncached, prev>>
    /\ UNCHANGED <<retryVars, uploadVars>>

\* a write of chunk x at position pos (counted in chunks) of the file data
WriteAt(data, pos, x) ==
    [i \in 1..(IF Len(data) > pos + 1 THEN Len(data) ELSE pos + 1) |->
        IF i = pos + 1 THEN x
        ELSE IF i <= Len(data) THEN data[i] ELSE Hole]

\* lines 19-20: the next chunk of the body arrives and file.write(chunk)
WriteChunk(c) ==
    /\ pc[c] = "iter_content"
    /\ file[c] < NChunks
    /\ LET p == Resolve(local_path[c])
           x == Content(response[c].obj)[file[c] + 1]
       IN  fs' = [fs EXCEPT ![p] = WriteAt(@, file[c], x)]
    /\ file' = [file EXCEPT ![c] = @ + 1]
    /\ UNCHANGED <<pc, bucket_name, file_key, local_path, response, result, err, dirs,
                   fetchCount, reqs, touched, calls, uncached, prev>>
    /\ UNCHANGED <<retryVars, uploadVars>>

\* line 19: the connection breaks while the body is read; iter_content raises,
\* the with block closes the file and the exception leaves fetch_s3_file
ReadFails(c) ==
    /\ pc[c] = "iter_content"
    /\ file[c] < NChunks
    /\ Raise(c, "ChunkedEncodingError")
    /\ UNCHANGED <<bucket_name, file_key, local_path, result, dirs, fs,
                   fetchCount, reqs, touched, calls, uncached, prev>>
    /\ UNCHANGED <<retryVars, uploadVars>>

\* WriteFails with the error caught and printed, and the path returned
WriteFailsSwallowed(c) ==
    /\ pc[c] = "iter_content"
    /\ file[c] < NChunks
    /\ pc' = [pc EXCEPT ![c] = "returned"]
    /\ result' = [result EXCEPT ![c] = local_path[c]]
    /\ Leave(c)
    /\ UNCHANGED <<bucket_name, file_key, local_path, err, dirs, fs,
                   fetchCount, reqs, touched, calls, uncached, prev>>
    /\ UNCHANGED <<retryVars, uploadVars>>

\* line 20: file.write raises (the disk is full)
WriteFails(c) ==
    /\ pc[c] = "iter_content"
    /\ file[c] < NChunks
    /\ Raise(c, "OSError")
    /\ UNCHANGED <<bucket_name, file_key, local_path, result, dirs, fs,
                   fetchCount, reqs, touched, calls, uncached, prev>>
    /\ UNCHANGED <<retryVars, uploadVars>>

\* lines 19-23: the body is exhausted, the file is closed, return local_path
Return(c) ==
    /\ pc[c] = "iter_content"
    /\ file[c] = NChunks
    /\ pc' = [pc EXCEPT ![c] = "returned"]
    /\ result' = [result EXCEPT ![c] = local_path[c]]
    /\ Leave(c)
    /\ UNCHANGED <<bucket_name, file_key, local_path, err, dirs, fs,
                   fetchCount, reqs, touched, calls, uncached, prev>>
    /\ UNCHANGED <<retryVars, uploadVars>>

\* the caller's process is killed while it downloads (lines 18-20)
Kill(c) ==
    /\ pc[c] = "iter_content"
    /\ pc' = [pc EXCEPT ![c] = "killed"]
    /\ Leave(c)
    /\ UNCHANGED <<bucket_name, file_key, local_path, result, err, dirs,
                   fs, fetchCount, reqs, touched, calls, uncached, prev>>
    /\ UNCHANGED <<retryVars, uploadVars>>

\* the entry of key k is removed from the cache directory between calls
\* (the code never removes one; line 9 is where a call sees it gone)
Evict(k) ==
    /\ \A c \in Callers : ~InCall(c)
    /\ Resolve(join(CACHE_DIR, k)) \in DOMAIN fs
    /\ fs' = [p \in DOMAIN fs \ {Resolve(join(CACHE_DIR, k))} |-> fs[p]]
    /\ UNCHANGED <<pc, bucket_name, file_key, local_path, response, file, result,
                   err, dirs, fetchCount, reqs, touched, calls, uncached, prev>>
    /\ UNCHANGED <<retryVars, uploadVars>>

\* a step of fetch_s3_file in caller c
Step(c) ==
    \/ CheckExists(c) \/ Get(c) \/ GetFails(c) \/ RaiseForStatus(c)
    \/ Makedirs(c) \/ Open(c) \/ WriteChunk(c) \/ ReadFails(c) \/ WriteFails(c)
    \/ Return(c)

\* the callers call fetch_s3_file concurrently
Next ==
    \/ \E c \in Callers : \E u \in Requests : calls < MaxCalls /\ Call(c, u[1], u[2])
    \/ \E c \in Callers : Step(c)
    \/ \E c \in Callers : Kill(c)

Spec == Init /\ [][Next]_vars

\* the calls of the runs in which every caller keeps running: an object the
\* store holds and one it does not hold
FairRequests == {<<"b1", KeyAB>>, <<"b2", KeyAB2>>}

NextFair ==
    \/ \E c \in Callers : \E u \in FairRequests : calls < MaxCalls /\ Call(c, u[1], u[2])
    \/ \E c \in Callers : Step(c)
    \/ \E c \in Callers : Kill(c)

\* every caller inside fetch_s3_file keeps running: a thread that can take a
\* step of the function takes it, and every network operation it waits for
\* comes to an answer or to an error
SpecFair == Init /\ [][NextFair]_vars /\ \A c \in Callers : WF_vars(Step(c))

\* one caller calls fetch_s3_file again and again; nobody else touches the cache
SeqCaller == "c1"

NextSeq ==
    \/ \E u \in Requests : calls < MaxSeqCalls /\ Call(SeqCaller, u[1], u[2])
    \/ Step(SeqCaller)
    \/ Kill(SeqCaller)

SpecSeq == Init /\ [][NextSeq]_vars

\* one caller calling again and again, entries being removed between calls
NextEvict ==
    \/ \E u \in Requests : calls < MaxSeqCalls /\ Call(SeqCaller, u[1], u[2])
    \/ Step(SeqCaller)
    \/ Kill(SeqCaller)
    \/ \E u \in Requests : Evict(u[2])

SpecEvict == Init /\ [][NextEvict]_vars

\* one caller calling again and again for the keys of one bucket
NextKeys ==
    \/ \E u \in KeyRequests : calls < MaxSeqCalls /\ Call(SeqCaller, u[1], u[2])
    \/ Step(SeqCaller)
    \/ Kill(SeqCaller)

SpecKeys == Init /\ [][NextKeys]_vars

(* --------------- test-retry.py: run_script_every_5_seconds ------------- *)
\* line 11: time.sleep(5)
Delay == 5

\* lines 5-6: while True: print("Running script...")
LoopPrint ==
    /\ rpc = "while"
    /\ runs < MaxRuns
    /\ runs' = runs + 1
    /\ rpc' = "run"
    /\ UNCHANGED <<run_result, sleeps>>
    /\ UNCHANGED <<cacheVars, uploadVars>>

\* line 8: subprocess.run(..., check=True) returns: the script exited with 0
RunExitsZero ==
    /\ rpc = "run"
    /\ run_result' = "zero"
    /\ rpc' = "sleep"
    /\ UNCHANGED <<runs, sleeps>>
    /\ UNCHANGED <<cacheVars, uploadVars>>

\* lines 8-9: the script exited with another status; check=True raises
\* CalledProcessError, which the except clause catches
RunExitsNonZero ==
    /\ rpc = "run"
    /\ run_result' = "nonzero"
    /\ rpc' = "except"
    /\ UNCHANGED <<runs, sleeps>>
    /\ UNCHANGED <<cacheVars, uploadVars>>

\* line 8: the interpreter cannot be started (no "python" on the PATH):
\* subprocess.run raises an OSError, which the except clause of line 9 does
\* not name, so it leaves the function
RunCannotStart ==
    /\ rpc = "run"
    /\ run_result' = "oserror"
    /\ rpc' = "raised"
    /\ UNCHANGED <<runs, sleeps>>
    /\ UNCHANGED <<cacheVars, uploadVars>>

\* line 10: print(f"Script failed with error: {e}...")
Except ==
    /\ rpc = "except"
    /\ rpc' = "sleep"
    /\ UNCHANGED <<runs, run_result, sleeps>>
    /\ UNCHANGED <<cacheVars, uploadVars>>

\* Sleep with a delay that grows with the number of runs
SleepBackoff ==
    /\ rpc = "sleep"
    /\ sleeps' = Append(sleeps, [after |-> run_result, secs |-> Delay * runs])
    /\ rpc' = "while"
    /\ UNCHANGED <<runs, run_result>>
    /\ UNCHANGED <<cacheVars, uploadVars>>

\* line 11: time.sleep(5), then back to line 5
Sleep ==
    /\ rpc = "sleep"
    /\ sleeps' = Append(sleeps, [after |-> run_result, secs |-> Delay])
    /\ rpc' = "while"
    /\ UNCHANGED <<runs, run_result>>
    /\ UNCHANGED <<cacheVars, uploadVars>>

NextRetry ==
    \/ LoopPrint \/ RunExitsZero \/ RunExitsNonZero \/ RunCannotStart
    \/ Except \/ Sleep

SpecRetry == Init /\ [][NextRetry]_vars

(* ------ s3_example_upload.py: upload_file_to_s3_if_not_exists ---------- *)
\* someone else has put an object under key k (between two calls)
Put(k) ==
    /\ upc \in {"main", "returned"}
    /\ bucket[k] = "none"
    /\ bucket' = [bucket EXCEPT ![k] = "theirs"]
    /\ UNCHANGED <<upc, s3_path, head_object, uploads, ucalls>>
    /\ UNCHANGED <<cacheVars, retryVars>>

\* lines 26-27 and 7: the next call of upload_file_to_s3_if_not_exists
UploadCall(k) ==
    /\ upc \in {"main", "returned"}
    /\ ucalls < MaxUploads
    /\ ucalls' = ucalls + 1
    /\ s3_path' = k
    /\ head_object' = "none"
    /\ uploads' = 0
    /\ upc' = "client"
    /\ UNCHANGED bucket
    /\ UNCHANGED <<cacheVars, retryVars>>

\* line 8: s3_client = boto3.client('s3')
Client ==
    /\ upc = "client"
    /\ upc' = "head"
    /\ UNCHANGED <<s3_path, head_object, uploads, ucalls, bucket>>
    /\ UNCHANGED <<cacheVars, retryVars>>

\* line 8 raises (a broken configuration): it is outside the try of line 10
ClientFails ==
    /\ upc = "client"
    /\ upc' = "raised"
    /\ UNCHANGED <<s3_path, head_object, uploads, ucalls, bucket>>
    /\ UNCHANGED <<cacheVars, retryVars>>

\* how s3_client.head_object can end: with the object's metadata when the
\* object is there, with a 404 error when it is not, and in either case with
\* another error (403, throttling, no connection)
HeadOutcomes(k) == (IF bucket[k] = "none" THEN {"404"} ELSE {"ok"}) \cup {"error"}

\* lines 12-17: head_object; on success print and return, on any exception
\* (the bare except of line 16) go on to the upload
HeadObject ==
    /\ upc = "head"
    /\ \E h \in HeadOutcomes(s3_path) :
          /\ head_object' = h
          /\ upc' = (IF h = "ok" THEN "returned" ELSE "upload")
    /\ UNCHANGED <<s3_path, uploads, ucalls, bucket>>
    /\ UNCHANGED <<cacheVars, retryVars>>

\* lines 18-19: s3_client.upload_file puts the object, whatever was there
UploadFile ==
    /\ upc = "upload"
    /\ uploads' = uploads + 1
    /\ bucket' = [bucket EXCEPT ![s3_path] = "ours"]
    /\ upc' = "returned"
    /\ UNCHANGED <<s3_path, head_object, ucalls>>
    /\ UNCHANGED <<cacheVars, retryVars>>

\* lines 18 and 20: s3_client.upload_file raises; nothing is put
UploadFileFails ==
    /\ upc = "upload"
    /\ uploads' = uploads + 1
    /\ upc' = "except"
    /\ UNCHANGED <<s3_path, head_object, ucalls, bucket>>
    /\ UNCHANGED <<cacheVars, retryVars>>

\* lines 20-21: except Exception as e: print(e)
PrintException ==
    /\ upc = "except"
    /\ upc' = "returned"
    /\ UNCHANGED <<s3_path, head_object, uploads, ucalls, bucket>>
    /\ UNCHANGED <<cacheVars, retryVars>>

NextUpload ==
    \/ \E k \in S3Paths : Put(k)
    \/ \E k \in S3Paths : UploadCall(k)
    \/ Client \/ ClientFails \/ HeadObject
    \/ UploadFile \/ UploadFileFails \/ PrintException

SpecUpload == Init /\ [][NextUpload]_vars

(* ------------------------------ claims -------------------------------- *)
\* the GET of caller c is under way: the request is sent (line 14) and the
\* body is not yet read to its end (line 19)
InFlight(c) == pc[c] \in {"raise_for_status", "makedirs", "open", "iter_content"}

\* the data is the whole of some remote object
Complete(data) == \E u \in DOMAIN RemoteObjects : data = Content(RemoteObjects[u])

\* all GET requests the remote store has seen for key k
FetchesOf(k) ==
    LET us == {u \in Urls : u[2] = k}
        RECURSIVE Sum(_)
        Sum(S) == IF S = {} THEN 0
                  ELSE LET u == CHOOSE x \in S : TRUE
                       IN  fetchCount[u] + Sum(S \ {u})
    IN  Sum(us)

\* C1: single-flight. At most one fetch of a key is in flight at any moment,
\* and when two callers have both resolved the same key, uncached when they
\* called, the store has seen exactly one GET for it and both hold a path at
\* which a file exists.
C1_SingleFlight ==
    \A c, d \in Callers :
       (c # d /\ file_key[c] = file_key[d])
       => /\ ~(InFlight(c) /\ InFlight(d))
          /\ (pc[c] = "returned" /\ pc[d] = "returned" /\ uncached[c] /\ uncached[d])
             => /\ FetchesOf(file_key[c]) = 1
                /\ Exists(result[c]) /\ Exists(result[d])

\* C2: no partial artifacts. After a call ended with the error of a remote
\* read that broke off, there is no file at the final path of its key; and a
\* call for the same key that follows it and returns has made a fetch and
\* returns the path of a complete file.
C2_NoPartialArtifacts ==
    \A c \in Callers :
       /\ (pc[c] = "raised" /\ err[c] = "ChunkedEncodingError")
          => Resolve(local_path[c]) \notin DOMAIN fs
       /\ (pc[c] = "returned" /\ prev[c].outcome = "raised"
             /\ prev[c].err = "ChunkedEncodingError" /\ prev[c].key = file_key[c])
          => /\ reqs[c] = 1
             /\ Resolve(result[c]) \in DOMAIN fs
             /\ Complete(fs[Resolve(result[c])])

\* C3: atomic materialization. Every file at a final path is a complete
\* object, also while a writer downloads it and after a writer was killed.
C3_AtomicMaterialization ==
    \A p \in DOMAIN fs : Complete(fs[p])

\* C4: idempotence. When a caller resolves a key and then resolves it again,
\* and both calls return, the two calls return the same path, the second
\* makes no GET, and the two make exactly one GET between them when the key
\* was not cached before the first.
C4_Idempotence ==
    \A c \in Callers :
       (pc[c] = "returned" /\ prev[c].outcome = "returned" /\ prev[c].key = file_key[c])
       => /\ result[c] = prev[c].path
          /\ reqs[c] = 0
          /\ prev[c].uncached => prev[c].reqs + reqs[c] = 1

\* a second call for the key of a first call that fetched it has returned
C4_Witness ==
    \E c \in Callers :
       /\ pc[c] = "returned" /\ prev[c].outcome = "returned"
       /\ prev[c].key = file_key[c] /\ prev[c].uncached /\ prev[c].reqs = 1

\* C5: result guarantee across namespaces. When resolve has returned for
\* (bucket, key), the file at the returned path holds the bytes of the object
\* of that bucket and key. Stated for the states in which the file at the
\* returned path is a whole object, so that only the namespace decides it.
C5_ResultAcrossNamespaces ==
    \A c \in Callers :
       (/\ pc[c] = "returned"
        /\ Resolve(result[c]) \in DOMAIN fs
        /\ Complete(fs[Resolve(result[c])]))
       => /\ s3_url(bucket_name[c], file_key[c]) \in DOMAIN RemoteObjects
          /\ fs[Resolve(result[c])] =
                Content(RemoteObjects[s3_url(bucket_name[c], file_key[c])])

\* a key with a ".." segment or an absolute-path prefix
InvalidKey(k) == k.abs \/ \E i \in 1..Len(k.segs) : k.segs[i] = ".."

\* C6: key validation. A call with an invalid key makes no request, creates
\* no directory and no file, never returns a path, and when it ends it ends
\* with the error InvalidKey.
C6_KeyValidation ==
    \A c \in Callers :
       InvalidKey(file_key[c])
       => /\ reqs[c] = 0
          /\ touched[c] = {}
          /\ pc[c] # "returned"
          /\ pc[c] = "raised" => err[c] = "InvalidKey"

\* C7: integrity repair. When resolve finds at the final path a file that is
\* not a whole object, and nobody is writing it, it does not return it but
\* goes on to fetch the object.
C7_IntegrityRepair ==
    [][\A c \in Callers :
         LET p == Resolve(local_path[c]) IN
         (/\ pc[c] = "exists" /\ pc'[c] # "exists"
          /\ p \in DOMAIN fs /\ ~Complete(fs[p])
          /\ \A d \in Callers \ {c} :
                ~(pc[d] = "iter_content" /\ Resolve(local_path[d]) = p))
         => pc'[c] = "get"]_vars

\* C8: existing entries are stable. No step of any resolve call changes or
\* removes a file that is a whole object at a final path.
C8_EntriesStable ==
    [][\A p \in DOMAIN fs :
         Complete(fs[p]) => (p \in DOMAIN fs' /\ fs'[p] = fs[p])]_vars

\* C9: not-found handling. A call that the remote store answered with an
\* error status has raised after exactly one request, has created no
\* directory and no file, and, no other caller having called, nothing is at
\* its final path.
C9_NotFound ==
    \A c \in Callers :
       (pc[c] = "raised" /\ err[c] = "HTTPError")
       => /\ reqs[c] = 1
          /\ touched[c] = {}
          /\ (\A d \in Callers \ {c} : pc[d] = "idle") => ~Exists(local_path[c])

\* a call for an object the store does not hold has raised
C9_Witness ==
    \E c \in Callers :
       /\ pc[c] = "raised" /\ err[c] = "HTTPError"
       /\ s3_url(bucket_name[c], file_key[c]) \notin DOMAIN RemoteObjects
       /\ \A d \in Callers \ {c} : pc[d] = "idle"

C11_FastPath ==
    [][\A c \in Callers :
         (pc[c] = "exists" /\ pc'[c] # "exists" /\ Exists(local_path[c]))
         => /\ pc'[c] = "returned"
            /\ result'[c] = local_path[c]
            /\ reqs'[c] = 0
            /\ fetchCount' = fetchCount
            /\ fs' = fs /\ dirs' = dirs]_vars

\* a call has returned the path of an entry that was there when it began
C11_Witness ==
    \E c \in Callers : pc[c] = "returned" /\ ~uncached[c] /\ touched[c] = {}

\* the location lies in the cache directory (or is the cache directory)
UnderCacheRoot(p) ==
    LET r == Resolve(CACHE_DIR)
    IN  Len(p) >= Len(r) /\ SubSeq(p, 1, Len(r)) = r

\* C12: containment of side effects. Every directory and file a call creates
\* or writes lies under the cache root, and a call that fetched and returned
\* has created or written exactly one file, the entry of its key.
C12_Containment ==
    \A c \in Callers :
       /\ \A p \in touched[c] : UnderCacheRoot(p)
       /\ (pc[c] = "returned" /\ reqs[c] = 1)
          => touched[c] \cap DOMAIN fs = {Resolve(join(CACHE_DIR, file_key[c]))}

\* the line the call is at runs (the failures of the network and of the disk
\* are left out: they are not the call going on)
Proceeds(c) ==
    \/ CheckExists(c) \/ Get(c) \/ RaiseForStatus(c) \/ Makedirs(c)
    \/ Open(c) \/ WriteChunk(c) \/ Return(c)

\* C14: no cross-key blocking. A call is never made to wait while a fetch of
\* another key is in flight: whatever line it is at, that line can run.
C14_NoCrossKeyBlocking ==
    \A c \in Callers :
       (InCall(c) /\ \E d \in Callers \ {c} :
                        InFlight(d) /\ file_key[d] # file_key[c])
       => ENABLED Proceeds(c)

\* fetches of two different keys are in flight together
C14_Witness ==
    \E c, d \in Callers :
       /\ InFlight(c) /\ InFlight(d) /\ file_key[c] # file_key[d]
       /\ pc[c] = "iter_content" /\ pc[d] = "iter_content"

\* the exceptions fetch_s3_file lets out
Errors == {"ConnectionError", "HTTPError", "OSError", "ChunkedEncodingError"}

\* C16: errors are never swallowed. A call that failed has raised one of the
\* errors to its caller and returned no path; a call that made a request and
\* returned a path had no failure: the store answered with the object and
\* all of it is in the file.
C16_ErrorsRaised ==
    \A c \in Callers :
       /\ pc[c] = "raised" => (err[c] \in Errors /\ result[c] = NoPath)
       /\ pc[c] = "returned"
          => /\ err[c] = ""
             /\ reqs[c] = 1
                => /\ s3_url(bucket_name[c], file_key[c]) \in DOMAIN RemoteObjects
                   /\ Resolve(result[c]) \in DOMAIN fs
                   /\ fs[Resolve(result[c])] =
                         Content(RemoteObjects[s3_url(bucket_name[c], file_key[c])])

\* a write to the local file has failed and the call has raised
C16_Witness ==
    \E c \in Callers :
       /\ pc[c] = "raised" /\ err[c] = "OSError"
       /\ Resolve(local_path[c]) \in DOMAIN fs

\* C13: key isolation. The file a call returns for its key holds bytes of the
\* object of that key only (the object at the call's own URL), never bytes
\* fetched for another key of the same bucket.
C13_KeyIsolation ==
    \A c \in Callers :
       (pc[c] = "returned" /\ Resolve(result[c]) \in DOMAIN fs)
       => \A i \in 1..Len(fs[Resolve(result[c])]) :
             fs[Resolve(result[c])][i][1] =
                RemoteObjects[s3_url(bucket_name[c], file_key[c])]

\* C15: refetch after eviction. When a call for a key has returned from the
\* cache (no request: the key had been fetched before) and the entry is then
\* removed, the next call for the key, at the step it returns, has made one
\* new request (the fetches of the key now count two or more) and the entry
\* is there again, written by this call with the whole object.
C15_RefetchAfterEviction ==
    [][\A c \in Callers :
         (/\ pc[c] # "returned" /\ pc'[c] = "returned"
          /\ prev[c].outcome = "returned" /\ prev[c].key = file_key[c]
          /\ prev[c].reqs = 0
          /\ uncached[c])
         => /\ reqs'[c] = 1
            /\ FetchesOf(file_key[c])' >= 2
            /\ Resolve(local_path[c]) \in DOMAIN fs'
            /\ Resolve(local_path[c]) \in touched'[c]
            /\ Complete(fs'[Resolve(local_path[c])])]_vars

\* a call has returned after the entry its predecessor had found was removed
C15_Witness ==
    \E c \in Callers :
       /\ pc[c] = "returned" /\ uncached[c] /\ reqs[c] = 1
       /\ prev[c].outcome = "returned" /\ prev[c].key = file_key[c]
       /\ prev[c].reqs = 0
       /\ FetchesOf(file_key[c]) = 2

C18_UploadIfNotExists ==
    [][/\ \A k \in S3Paths : bucket[k] # "none" => bucket'[k] = bucket[k]
       /\ (upc # "returned" /\ upc' = "returned")
          => uploads' = (IF head_object' = "ok" THEN 0 ELSE 1)
       /\ upc \in {"head", "upload", "except"} => upc' # "raised"]_vars

====
